---- MODULE Spec2Model ----
(***************************************************************************)
(* Traffic-sensor telemetry generator (python-to-sql-genv2).               *)
(*                                                                         *)
(* Five specifications over one set of variables:                          *)
(*   ClassifySpec  get_time_period / get_time_multipliers (generator_v2)   *)
(*   SampleSpec    the vehicle_count and pepkspeed of both generators      *)
(*   SinkSpec      write_record_to_csv / write_record_to_db                *)
(*   Spec          the run loops: runner.main over generator_v2 and        *)
(*                 runner_runtime.main over generator.py                   *)
(*   RuntimeFairSpec  runner_runtime.main alone, with the fairness of a    *)
(*                 single thread that keeps executing                      *)
(* Multipliers are fixed-point numbers in thousandths; instants are        *)
(* milliseconds since midnight of the base day.                            *)
(***************************************************************************)
EXTENDS Integers, Sequences, FiniteSets, TLC

VARIABLES
    \* ---- ClassifySpec
    hour,           \* the argument of the call
    period,         \* last result of get_time_period, or "none"
    mult,           \* last result of get_time_multipliers, or <<0, 0>>
    \* ---- SinkSpec: configuration, file system, store, and the last call
    CSV_WRITE,      \* csv_writer.CSV_WRITE
    DB_WRITE,       \* db_writer.DB_WRITE
    dir_exists,     \* the parent directory of CSV_PATH exists
    file_exists,    \* CSV_PATH exists
    file,           \* the lines of CSV_PATH
    table_exists,   \* sensor_readings exists in the store
    table,          \* the committed rows of sensor_readings
    utc,            \* the wall clock read by datetime.utcnow()
    last,           \* the last sink call: [sink, rec, env, result]
    n_calls,        \* sink calls made so far
    csv_ok,         \* write_record_to_csv calls that returned True
    csv_fail,       \* write_record_to_csv calls that did not
    \* ---- Spec / RuntimeFairSpec: the generator (a suspended coroutine)
    num_records,    \* generate_records' argument
    gen_pc,         \* "start" | "yielded" | "done" (StopIteration)
    gen_i,          \* generate_records' i
    sensor_id,      \* generator_v2: the burst's sensor
    batch_size,     \* generator_v2: the burst's size
    j,              \* generator_v2: index in the burst
    batch_time,     \* generator_v2: the burst's base instant
    current_time,   \* generator_v2: the instant of the last record
    record,         \* the record last yielded
    emitted,        \* records yielded so far
    \* ---- Spec / RuntimeFairSpec: the run loop
    prog,           \* "runner" | "runner_runtime"
    pc,             \* where main is
    run_i,          \* main's i
    calls,          \* the sink calls made, in order
    now,            \* time.perf_counter(), in ticks
    stop,           \* runner_runtime._stop
    duration,       \* runner_runtime.main's duration, in ticks
    rate,           \* runner_runtime.main's rate
    start_time,     \* runner_runtime.main's start_time
    next_tick,      \* runner_runtime.main's next_tick
    t_now,          \* runner_runtime.main's local now
    logged,         \* the reason main logged for leaving its loop
    stop_checks,    \* how many times main has tested _stop
    \* ---- SampleSpec: the configuration and the last field value computed
    VEHICLE_COUNT,  \* generator.VEHICLE_COUNT
    PEAKSPEED_MEAN, \* PEAKSPEED_MEAN of both generators (a float)
    PEAKSPEED_STD,  \* PEAKSPEED_STD of both generators (a float)
    out             \* the last record field computed: [gen, field, count, speed]

classify_vars == <<hour, period, mult>>
sink_vars == <<CSV_WRITE, DB_WRITE, dir_exists, file_exists, file, table_exists,
               table, utc, last, n_calls, csv_ok, csv_fail>>
gen_vars == <<num_records, gen_pc, gen_i, sensor_id, batch_size, j, batch_time,
              current_time, record, emitted>>
run_vars == <<prog, pc, run_i, calls, now, stop, duration, rate, start_time,
              next_tick, t_now, logged, stop_checks>>
sample_vars == <<VEHICLE_COUNT, PEAKSPEED_MEAN, PEAKSPEED_STD, out>>
vars == <<classify_vars, sink_vars, gen_vars, run_vars, sample_vars>>

\* ------------------------------------------------------------------------
\* Bounds of the model
\* ------------------------------------------------------------------------
\* random.uniform(a, b) is a + (b - a) * random(); random() is drawn from
\* the fractions u / UniformSteps, u in 0..UniformSteps.
UniformSteps == 4
\* SinkSpec makes at most this many sink calls.
MaxSinkCalls == 2
\* A bounded run asks for at most this many records; an unbounded one
\* (num_records = -1) is followed for this many.
MaxRecords == 4
\* random.randint(0, 500) is drawn from the multiples of 500 / JitterLevels.
JitterLevels == 2
\* random.choice(SENSOR_IDS) is drawn from the first NumSensors sensors.
NumSensors == 2
\* runner_runtime: the duration is at most MaxDuration ticks, the rate at
\* most MaxRate records a second, the clock starts at most at MaxStart, and a
\* sleep or a sink call overruns by at most MaxLag ticks.
MaxDuration == 4
MaxRate == 2
MaxStart == 1
MaxLag == 1
\* np.random.normal(mean, std) is drawn from mean + z * std, z in
\* -MaxSigma..MaxSigma; VEHICLE_COUNT is configured in -1..MaxVehicleCount.
MaxSigma == 3
MaxVehicleCount == 2

\* ------------------------------------------------------------------------
\* generator_v2.py: time-of-day classification and multipliers
\* ------------------------------------------------------------------------
RUSH_HOURS == << <<7, 9>>, <<11, 13>>, <<16, 18>> >>

Hours == 0..23

is_rush_hour(h) ==
    \E k \in 1..Len(RUSH_HOURS) : RUSH_HOURS[k][1] <= h /\ h < RUSH_HOURS[k][2]

\* get_time_period with its first two tests in the other order
get_time_period_swapped(h) ==
    IF 9 <= h /\ h < 17 THEN "business"
    ELSE IF \E k \in 1..Len(RUSH_HOURS) :
                RUSH_HOURS[k][1] <= h /\ h < RUSH_HOURS[k][2] THEN "rush_hour"
    ELSE IF 18 <= h /\ h < 22 THEN "evening"
    ELSE "overnight"

get_time_period(h) ==
    IF \E k \in 1..Len(RUSH_HOURS) :
           RUSH_HOURS[k][1] <= h /\ h < RUSH_HOURS[k][2] THEN "rush_hour"
    ELSE IF 9 <= h /\ h < 17 THEN "business"
    ELSE IF 18 <= h /\ h < 22 THEN "evening"
    ELSE "overnight"

\* random.uniform(a, b), in thousandths
uniform(a, b) == { a + ((b - a) * u) \div UniformSteps : u \in 0..UniformSteps }

\* get_time_multipliers with "and" for "or" in its late-night test
get_time_multipliers_and(h) ==
    IF is_rush_hour(h) THEN uniform(600, 800) \X uniform(1500, 2000)
    ELSE IF 23 <= h /\ h < 5 THEN uniform(1100, 1200) \X uniform(300, 500)
    ELSE uniform(900, 1100) \X uniform(800, 1200)

\* The (speed_multiplier, vehicle_count_multiplier) pairs one call may return
get_time_multipliers(h) ==
    IF is_rush_hour(h) THEN uniform(600, 800) \X uniform(1500, 2000)
    ELSE IF 23 <= h \/ h < 5 THEN uniform(1100, 1200) \X uniform(300, 500)
    ELSE uniform(900, 1100) \X uniform(800, 1200)

\* ------------------------------------------------------------------------
\* Floats: a number in thousandths, or NaN (float("nan") is a legal value
\* of PEAKSPEED_MEAN and PEAKSPEED_STD)
\* ------------------------------------------------------------------------
Num(x) == [nan |-> FALSE, v |-> x]
NaN == [nan |-> TRUE, v |-> 0]

\* a < b: False when either side is NaN
Lt(a, b) == ~a.nan /\ ~b.nan /\ a.v < b.v

\* min(a, b): the first argument unless the second is smaller
py_min(a, b) == IF Lt(b, a) THEN b ELSE a

\* max(a, b): the first argument unless the second is larger
py_max(a, b) == IF Lt(a, b) THEN b ELSE a

\* a * b
Mul(a, b) == IF a.nan \/ b.nan THEN NaN ELSE Num((a.v * b.v) \div 1000)

\* a + z * b, z an integer
AddScaled(a, z, b) == IF a.nan \/ b.nan THEN NaN ELSE Num(a.v + z * b.v)

\* Round half to even: n / unit to the nearest integer
RoundHalfEven(n, unit) ==
    LET q == n \div unit
        r == n % unit
    IN  IF 2 * r < unit THEN q
        ELSE IF 2 * r > unit THEN q + 1
        ELSE IF q % 2 = 0 THEN q ELSE q + 1

\* round(x, 2): a float of whole hundredths
round2(x) == IF x.nan THEN NaN ELSE Num(10 * RoundHalfEven(x.v, 10))

\* The configured means and standard deviations followed (np.random.normal
\* raises for a negative standard deviation, and no record is built)
MeanChoices == { Num(0 - 40000), Num(40000), Num(119996), Num(150000), NaN }
StdChoices == { Num(0), Num(5000), Num(60000) }

\* float(np.random.normal(mean, std))
normal(mean, std) == { AddScaled(mean, z, std) : z \in (0 - MaxSigma)..MaxSigma }

\* sample_peakspeed without its upper bound
clip_lower_only(x) == py_max(Num(0), x)

\* max(0.0, min(x, 120.0))
clip(x) == py_max(Num(0), py_min(x, Num(120000)))

\* generator_v2.sample_peakspeed(hour): the values one call may return
sample_peakspeed_v2(h) ==
    { clip(Mul(base_speed, Num(m[1]))) :
        base_speed \in normal(PEAKSPEED_MEAN, PEAKSPEED_STD),
        m \in get_time_multipliers(h) }

\* generator.sample_peakspeed(): the values one call may return
sample_peakspeed_v1 == { clip(val) : val \in normal(PEAKSPEED_MEAN, PEAKSPEED_STD) }

\* random.randint(1, 5)
BaseVehicleCounts == 1..5

\* max(1, round(base_vehicle_count * vehicle_mult)), vehicle_mult in thousandths
adjusted_count(base, vehicle_mult) ==
    LET n == RoundHalfEven(base * vehicle_mult, 1000)
    IN  IF n > 1 THEN n ELSE 1

\* A computed field: count holds a vehicle_count, speed a pepkspeed
Field(gen, field, count, speed) ==
    [gen |-> gen, field |-> field, count |-> count, speed |-> speed]

NoField == Field("none", "none", 0, Num(0))

SampleIdle ==
    /\ VEHICLE_COUNT = 1 /\ PEAKSPEED_MEAN = Num(40000) /\ PEAKSPEED_STD = Num(5000)
    /\ out = NoField

\* ------------------------------------------------------------------------
\* Record dictionaries handed to the sinks (json.loads(rec.to_json()))
\* ------------------------------------------------------------------------
\* A location string is a sequence of characters.
LocationChoices ==
    { <<"1", ".", "5", ",", "-", "2">>,      \* "1.5,-2"
      <<"1", ",", "x">>,                     \* "1,x"
      <<"1", ",", "2", ",", "3">>,           \* "1,2,3"
      <<"7">> }                              \* "7"

FullRecord(loc) ==
    [pgmid |-> "PMG00001", vehicle_count |-> 1, pepkspeed |-> 4000,
     timestamp |-> "12:00:00.000", location |-> loc]

\* A dict without one of its keys.
Without(rec, key) == [k \in DOMAIN rec \ {key} |-> rec[k]]

SinkRecords ==
    { FullRecord(loc) : loc \in LocationChoices }
        \cup { Without(FullRecord(<<"1", ".", "5", ",", "-", "2">>), "location"),
               Without(FullRecord(<<"1", ".", "5", ",", "-", "2">>), "pgmid") }

NoCall == [sink |-> "none"]

NoRecord == [pgmid |-> 0]

\* ------------------------------------------------------------------------
\* csv_writer.py
\* ------------------------------------------------------------------------
fields == <<"pgmid", "vehicle_count", "pepkspeed", "timestamp", "location", "created_at">>

HeaderLine == [kind |-> "header", cells |-> fields]

\* rec.get(key): <<value>>, or <<>> for None (written as an empty cell)
Get(rec, key) == IF key \in DOMAIN rec THEN <<rec[key]>> ELSE <<>>

RowLine(rec, created_at) ==
    [kind |-> "row",
     cells |-> << Get(rec, "pgmid"), Get(rec, "vehicle_count"), Get(rec, "pepkspeed"),
                  Get(rec, "timestamp"), Get(rec, "location"), <<created_at>> >>]

\* What the environment does to one CSV call: whether mkdir succeeds, and the
\* first I/O step that fails ("none": every step succeeds; "flush": the row
\* write fails and nothing buffered by this call reaches the file).
CsvEnvs == [mkdir : {"ok", "error"}, fail : {"none", "open", "header", "row", "flush"}]

\* A header written by every call
write_header_always(exists) == TRUE

\* write_header = not path.exists()
write_header(exists) == ~exists

\* write_record_to_csv(rec) under env: the result ("raised" when an exception
\* leaves the call; "True" / "False" the returned boolean) and the file system
\* after it.
write_record_to_csv(rec, env) ==
    LET hdr == IF write_header(file_exists) THEN <<HeaderLine>> ELSE <<>>
        same == [result |-> "True", dir |-> dir_exists, exists |-> file_exists, lines |-> file]
    IN  IF ~CSV_WRITE THEN same
        ELSE IF ~dir_exists /\ env.mkdir = "error" THEN [same EXCEPT !.result = "raised"]
        ELSE IF env.fail = "open" THEN [same EXCEPT !.result = "False", !.dir = TRUE]
        ELSE IF env.fail = "header" /\ hdr # <<>>
            THEN [result |-> "False", dir |-> TRUE, exists |-> TRUE, lines |-> file]
        ELSE IF env.fail = "flush"
            THEN [result |-> "False", dir |-> TRUE, exists |-> TRUE, lines |-> file]
        ELSE IF env.fail = "row"
            THEN [result |-> "False", dir |-> TRUE, exists |-> TRUE, lines |-> file \o hdr]
        ELSE [result |-> "True", dir |-> TRUE, exists |-> TRUE,
              lines |-> file \o hdr \o <<RowLine(rec, utc)>>]

\* ------------------------------------------------------------------------
\* db_writer.py
\* ------------------------------------------------------------------------
Digits == {"0", "1", "2", "3", "4", "5", "6", "7", "8", "9"}

RECURSIVE split(_, _)
\* s.split(sep): the parts of s between occurrences of sep (never empty: "" -> [""])
split(s, sep) ==
    IF \A k \in 1..Len(s) : s[k] # sep THEN <<s>>
    ELSE LET k == CHOOSE n \in 1..Len(s) : s[n] = sep /\ \A m \in 1..(n - 1) : s[m] # sep
         IN  <<SubSeq(s, 1, k - 1)>> \o split(SubSeq(s, k + 1, Len(s)), sep)

Unsigned(tok) == IF tok # <<>> /\ tok[1] \in {"-", "+"} THEN Tail(tok) ELSE tok

\* float(tok) succeeds: an optional sign, digits with at most one point, a digit at least
is_float(tok) ==
    LET u == Unsigned(tok)
    IN  /\ \A k \in 1..Len(u) : u[k] \in Digits \cup {"."}
        /\ Cardinality({k \in 1..Len(u) : u[k] = "."}) <= 1
        /\ \E k \in 1..Len(u) : u[k] \in Digits

DigitValue(c) ==
    CASE c = "0" -> 0 [] c = "1" -> 1 [] c = "2" -> 2 [] c = "3" -> 3 [] c = "4" -> 4
      [] c = "5" -> 5 [] c = "6" -> 6 [] c = "7" -> 7 [] c = "8" -> 8 [] c = "9" -> 9

RECURSIVE DigitsValue(_)
DigitsValue(ds) ==
    IF ds = <<>> THEN 0
    ELSE 10 * DigitsValue(SubSeq(ds, 1, Len(ds) - 1)) + DigitValue(ds[Len(ds)])

\* float(tok) in thousandths (fraction digits beyond the third dropped)
float(tok) ==
    LET u == Unsigned(tok)
        parts == split(u, ".")
        int == DigitsValue(parts[1])
        frac3 == IF Len(parts) = 1 THEN <<>>
                 ELSE SubSeq(parts[2] \o <<"0", "0", "0">>, 1, 3)
        mag == int * 1000 + DigitsValue(frac3)
    IN  IF tok # <<>> /\ tok[1] = "-" THEN 0 - mag ELSE mag

\* What the environment does to one store call: whether the connection opens,
\* and the first statement that raises mysql.connector.Error.
DbEnvs == [connect : {"ok", "error"}, fail : {"none", "create", "insert", "commit"}]

\* get_connection(): "conn", or "None" (dry-run, or the connection error was caught)
get_connection(env) ==
    IF ~DB_WRITE THEN "None"
    ELSE IF env.connect = "ok" THEN "conn" ELSE "None"

\* lat, lon = map(float, rec["location"].split(",")), then the insert parameters
InsertParams(rec) ==
    IF "location" \notin DOMAIN rec THEN [exc |-> "KeyError"]
    ELSE LET parts == split(rec["location"], ",")
         IN  IF Len(parts) # 2 \/ \E k \in 1..Len(parts) : ~is_float(parts[k])
                 THEN [exc |-> "ValueError"]
             ELSE IF \E k \in {"pgmid", "vehicle_count", "pepkspeed", "timestamp"} :
                        k \notin DOMAIN rec
                 THEN [exc |-> "KeyError"]
             ELSE [exc |-> "none",
                   row |-> <<rec["pgmid"], rec["vehicle_count"], rec["pepkspeed"],
                             rec["timestamp"], float(parts[1]), float(parts[2])>>]

\* write_record_to_db(rec) under env: the result ("raised" when an exception
\* leaves the call) and the store after it.
write_record_to_db(rec, env) ==
    LET same == [result |-> "True", exists |-> table_exists, rows |-> table]
        p == InsertParams(rec)
    IN  IF get_connection(env) = "None" THEN same
        ELSE IF env.fail = "create" THEN [same EXCEPT !.result = "False"]
        ELSE IF p.exc # "none" THEN [result |-> "raised", exists |-> TRUE, rows |-> table]
        ELSE IF env.fail \in {"insert", "commit"}
            THEN [result |-> "False", exists |-> TRUE, rows |-> table]
        ELSE [result |-> "True", exists |-> TRUE, rows |-> Append(table, p.row)]


\* ------------------------------------------------------------------------
\* The parts of the state a specification does not use stay as they are here
\* ------------------------------------------------------------------------
ClassifyIdle ==
    /\ period = "none"
    /\ mult = <<0, 0>>

SinkIdle ==
    /\ CSV_WRITE = TRUE /\ DB_WRITE = FALSE
    /\ dir_exists = FALSE /\ file_exists = FALSE /\ file = <<>>
    /\ table_exists = FALSE /\ table = <<>>
    /\ utc = 0 /\ last = NoCall /\ n_calls = 0 /\ csv_ok = 0 /\ csv_fail = 0

GenIdle ==
    /\ gen_pc = "start" /\ gen_i = 0 /\ sensor_id = 0 /\ batch_size = 0 /\ j = 0
    /\ batch_time = 0 /\ current_time = 0 /\ record = NoRecord /\ emitted = 0

RunIdle ==
    /\ GenIdle /\ num_records = 0
    /\ prog = "none" /\ pc = "idle" /\ run_i = 0 /\ calls = <<>> /\ now = 0
    /\ stop = FALSE /\ duration = 0 /\ rate = 0 /\ start_time = 0 /\ next_tick = 0
    /\ t_now = 0 /\ logged = "none" /\ stop_checks = 0

\* ------------------------------------------------------------------------
\* generator_v2.py: timestamps and the record generator
\* ------------------------------------------------------------------------
MsPerSecond == 1000
MsPerMinute == 60 * MsPerSecond
MsPerHour == 60 * MsPerMinute

\* The instant hour:minute:second.millis of the base day
ToInstant(h, m, sec, ms) == h * MsPerHour + m * MsPerMinute + sec * MsPerSecond + ms

\* datetime.hour of an instant (an instant past midnight is on the next day)
HourOf(t) == (t \div MsPerHour) % 24

\* strftime("%H:%M:%S.%f")[:-3]: the time of day alone, the date is dropped
strftime(t) ==
    << HourOf(t), (t \div MsPerMinute) % 60, (t \div MsPerSecond) % 60, t % MsPerSecond >>

\* The hours generate_timestamp draws from for each period
PeriodHours(p) ==
    CASE p = "rush_hour" ->
            UNION { RUSH_HOURS[k][1]..(RUSH_HOURS[k][2] - 1) : k \in 1..Len(RUSH_HOURS) }
      [] p = "business" -> { h \in 9..16 : ~is_rush_hour(h) }
      [] p = "evening" -> 18..21
      [] p = "overnight" -> (22..23) \cup (0..6)

TIME_WEIGHTS == {"rush_hour", "business", "evening", "overnight"}

\* The (minute, second, millisecond) draws followed
TimeOfHourChoices == { <<0, 0, 0>>, <<59, 59, 999>> }

\* generate_timestamp(base_time): the instants it may return
generate_timestamp ==
    { ToInstant(h, c[1], c[2], c[3]) :
        h \in UNION { PeriodHours(p) : p \in TIME_WEIGHTS }, c \in TimeOfHourChoices }

MaxJitterMs == 500

\* random.randint(0, 500)
JitterDraws == { (MaxJitterMs * k) \div JitterLevels : k \in 0..JitterLevels }

\* timedelta(milliseconds=random.randint(0, 500) * j), for the draw r
batch_offset(r, idx) == r * idx

SENSOR_IDS == 1..NumSensors

BatchSizes == 2..5

\* SensorRecord(...) of generator_v2 (vehicle_count and pepkspeed are not
\* read by the run loop and are left out of the run-loop state)
SensorRecordV2(sensor, t) ==
    [pgmid |-> sensor, timestamp |-> strftime(t), location |-> "LOCATION_LAT,LOCATION_LONG"]

\* while num_records == -1 or i < num_records
LoopCondition(n, i) == n = -1 \/ i < n

\* A generator that never cuts a burst
limit_reached_never(n, i) == FALSE

\* if num_records != -1 and i >= num_records: break
limit_reached(n, i) == n # -1 /\ i >= n

\* i after the resumed generator has run "i += 1"
ResumedI == IF gen_pc = "yielded" THEN gen_i + 1 ELSE gen_i

\* The resumed generator is back at the head of its while loop: it has not
\* started, the limit cut the burst, or the burst is complete.
AtLoopHead ==
    \/ gen_pc = "start"
    \/ gen_pc = "yielded" /\ (limit_reached(num_records, ResumedI) \/ j + 1 >= batch_size)

\* The record of index idx in the burst is built and yielded.
Yield(sensor, base, size, idx, r) ==
    LET t == base + batch_offset(r, idx)
    IN  /\ sensor_id' = sensor /\ batch_time' = base /\ batch_size' = size /\ j' = idx
        /\ current_time' = t
        /\ record' = SensorRecordV2(sensor, t)
        /\ gen_i' = ResumedI
        /\ emitted' = emitted + 1
        /\ gen_pc' = "yielded"

\* next(): a new burst starts and yields its first record.
V2NewBurst ==
    /\ prog = "runner" /\ pc = "next" /\ gen_pc # "done"
    /\ AtLoopHead /\ LoopCondition(num_records, ResumedI)
    /\ num_records = -1 => emitted < MaxRecords
    /\ \E sensor \in SENSOR_IDS, size \in BatchSizes, base \in generate_timestamp,
          r \in JitterDraws :
            Yield(sensor, base, size, 0, r)
    /\ pc' = "csv"
    /\ UNCHANGED <<num_records, prog, run_i, calls, now, stop, duration, rate,
                   start_time, next_tick, t_now, logged, stop_checks,
                   classify_vars, sink_vars, sample_vars>>

\* next(): the burst yields its next record.
V2ContinueBurst ==
    /\ prog = "runner" /\ pc = "next" /\ gen_pc = "yielded"
    /\ ~AtLoopHead
    /\ num_records = -1 => emitted < MaxRecords
    /\ \E r \in JitterDraws : Yield(sensor_id, batch_time, batch_size, j + 1, r)
    /\ pc' = "csv"
    /\ UNCHANGED <<num_records, prog, run_i, calls, now, stop, duration, rate,
                   start_time, next_tick, t_now, logged, stop_checks,
                   classify_vars, sink_vars, sample_vars>>

\* next(): the while loop ends (StopIteration), and with it main's for loop.
V2Stop ==
    /\ prog = "runner" /\ pc = "next" /\ gen_pc # "done"
    /\ AtLoopHead /\ ~LoopCondition(num_records, ResumedI)
    /\ gen_i' = ResumedI
    /\ gen_pc' = "done"
    /\ pc' = "done"
    /\ UNCHANGED <<num_records, sensor_id, batch_size, j, batch_time, current_time,
                   record, emitted, prog, run_i, calls, now, stop, duration, rate,
                   start_time, next_tick, t_now, logged, stop_checks,
                   classify_vars, sink_vars, sample_vars>>

\* ------------------------------------------------------------------------
\* runner.py: main
\* ------------------------------------------------------------------------
\* What a sink call may do in a run loop: return True or False, and, for the
\* CSV sink, raise (the parent directory cannot be created).
CsvResults == {"True", "False", "raised"}
DbResults == {"True", "False"}

SinkCall(sink, result) ==
    [sink |-> sink, rec |-> emitted, result |-> result, stop_set |-> stop]

\* A loop that carries on after a sink has returned False
after_sink_continue(result, onward) ==
    IF result = "raised" THEN "raised" ELSE onward

\* if not csv_ok: break / if not success: break
after_sink(result, onward) ==
    CASE result = "True" -> onward
      [] result = "False" -> "done"
      [] result = "raised" -> "raised"

RunnerCsv ==
    /\ prog = "runner" /\ pc = "csv"
    /\ \E result \in CsvResults :
        /\ calls' = Append(calls, SinkCall("csv", result))
        /\ pc' = after_sink(result, "db")
        /\ logged' = IF result = "False" THEN "CSV write failed; stopping" ELSE logged
    /\ UNCHANGED <<run_i, prog, now, stop, duration, rate, start_time, next_tick,
                   t_now, stop_checks, gen_vars, classify_vars, sink_vars, sample_vars>>

RunnerDb ==
    /\ prog = "runner" /\ pc = "db"
    /\ \E result \in DbResults :
        /\ calls' = Append(calls, SinkCall("db", result))
        /\ pc' = after_sink(result, "next")
        /\ run_i' = IF result = "True" THEN run_i + 1 ELSE run_i
        /\ logged' = IF result = "False" THEN "Stopping due to DB write failure" ELSE logged
    /\ UNCHANGED <<prog, now, stop, duration, rate, start_time, next_tick,
                   t_now, stop_checks, gen_vars, classify_vars, sink_vars, sample_vars>>

RunnerInit ==
    /\ prog = "runner" /\ pc = "next"
    /\ num_records \in -1..MaxRecords
    /\ GenIdle
    /\ run_i = 0 /\ calls = <<>> /\ now = 0
    /\ stop = FALSE /\ duration = 0 /\ rate = 0 /\ start_time = 0 /\ next_tick = 0
    /\ t_now = 0 /\ logged = "none" /\ stop_checks = 0
    /\ hour = 0 /\ ClassifyIdle /\ SinkIdle /\ SampleIdle

RunnerNext == V2NewBurst \/ V2ContinueBurst \/ V2Stop \/ RunnerCsv \/ RunnerDb


\* ------------------------------------------------------------------------
\* generator.py and runner_runtime.py
\* ------------------------------------------------------------------------
\* One second, in clock ticks
TicksPerSecond == 2

\* generator.py's interval, in clock ticks
GenInterval == 1

\* The clock is followed up to ClockCap, which stands for every later time:
\* it is past start_time + duration of every run.
ClockCap == MaxStart + MaxDuration + 1

Min(a, b) == IF a < b THEN a ELSE b

Later(t, d) == Min(ClockCap, t + d)

\* SensorRecord(...) of generator.py, stamped by the clock
SensorRecordV1(t) ==
    [pgmid |-> "PGMID",
     timestamp |-> strftime(t * (MsPerSecond \div TicksPerSecond)),
     location |-> "LOCATION_LAT,LOCATION_LONG"]

\* interval = 1.0 / rate if rate > 0 else 0.0
PaceInterval(r) == IF r > 0 THEN TicksPerSecond \div r ELSE 0

\* A loop that does not look at the flag
stop_requested_ignored(flag) == FALSE

\* if _stop:
stop_requested(flag) == flag

\* A duration test that lets the iteration at the limit through
duration_reached_late(t, start, d) == t - start > d

\* if now - start_time >= duration:
duration_reached(t, start, d) == t - start >= d

Running == prog = "runner_runtime" /\ pc \notin {"done", "raised"}

\* handle_exit(signum, frame), run between any two steps of main
HandleExit ==
    /\ Running
    /\ stop' = TRUE
    /\ UNCHANGED <<prog, pc, run_i, calls, now, duration, rate, start_time, next_tick,
                   t_now, logged, stop_checks, gen_vars, classify_vars, sink_vars, sample_vars>>

\* main up to its for loop
RtStart ==
    /\ prog = "runner_runtime" /\ pc = "start"
    /\ start_time' = now
    /\ next_tick' = now
    /\ pc' = "next"
    /\ UNCHANGED <<prog, run_i, calls, now, stop, duration, rate, t_now, logged,
                   stop_checks, gen_vars, classify_vars, sink_vars, sample_vars>>

\* next() on generator.generate_records(-1): after its first record the
\* generator adds one to i and sleeps its interval before it yields again.
RtNext ==
    /\ prog = "runner_runtime" /\ pc = "next"
    /\ \E lag \in 0..MaxLag :
        /\ now' = IF gen_pc = "yielded" THEN Later(now, GenInterval + lag) ELSE now
        /\ record' = SensorRecordV1(now')
    /\ gen_i' = ResumedI
    /\ emitted' = emitted + 1
    /\ gen_pc' = "yielded"
    /\ pc' = "check_stop"
    /\ UNCHANGED <<num_records, sensor_id, batch_size, j, batch_time, current_time,
                   prog, run_i, calls, stop, duration, rate, start_time, next_tick,
                   t_now, logged, stop_checks, classify_vars, sink_vars, sample_vars>>

RtCheckStop ==
    /\ prog = "runner_runtime" /\ pc = "check_stop"
    /\ stop_checks' = stop_checks + 1
    /\ IF stop_requested(stop)
         THEN pc' = "done" /\ logged' = "Stop signal received, exiting loop."
         ELSE pc' = "check_duration" /\ logged' = logged
    /\ UNCHANGED <<prog, run_i, calls, now, stop, duration, rate, start_time,
                   next_tick, t_now, gen_vars, classify_vars, sink_vars, sample_vars>>

RtCheckDuration ==
    /\ prog = "runner_runtime" /\ pc = "check_duration"
    /\ t_now' = now
    /\ IF duration_reached(now, start_time, duration)
         THEN pc' = "done" /\ logged' = "Reached duration limit."
         ELSE pc' = "pace" /\ logged' = logged
    /\ UNCHANGED <<prog, run_i, calls, now, stop, duration, rate, start_time,
                   next_tick, stop_checks, gen_vars, classify_vars, sink_vars, sample_vars>>

\* Rate control: sleep to next_tick when ahead of it, then move next_tick on.
RtPace ==
    /\ prog = "runner_runtime" /\ pc = "pace"
    /\ IF rate > 0 /\ t_now < next_tick
         THEN \E lag \in 0..MaxLag : now' = Later(now, (next_tick - t_now) + lag)
         ELSE now' = now
    /\ next_tick' = next_tick + PaceInterval(rate)
    /\ pc' = "csv"
    /\ UNCHANGED <<prog, run_i, calls, stop, duration, rate, start_time, t_now,
                   logged, stop_checks, gen_vars, classify_vars, sink_vars, sample_vars>>

Returned(result) == [calls EXCEPT ![Len(calls)].result = result]

RtCsvBegin ==
    /\ prog = "runner_runtime" /\ pc = "csv"
    /\ calls' = Append(calls, SinkCall("csv", "pending"))
    /\ pc' = "in_csv"
    /\ UNCHANGED <<prog, run_i, now, stop, duration, rate, start_time, next_tick,
                   t_now, logged, stop_checks, gen_vars, classify_vars, sink_vars, sample_vars>>

RtCsvEnd ==
    /\ prog = "runner_runtime" /\ pc = "in_csv"
    /\ \E result \in CsvResults, lag \in 0..MaxLag :
        /\ calls' = Returned(result)
        /\ now' = Later(now, lag)
        /\ pc' = after_sink(result, "db")
        /\ logged' = IF result = "False" THEN "CSV write failed; stopping." ELSE logged
    /\ UNCHANGED <<prog, run_i, stop, duration, rate, start_time, next_tick,
                   t_now, stop_checks, gen_vars, classify_vars, sink_vars, sample_vars>>

RtDbBegin ==
    /\ prog = "runner_runtime" /\ pc = "db"
    /\ calls' = Append(calls, SinkCall("db", "pending"))
    /\ pc' = "in_db"
    /\ UNCHANGED <<prog, run_i, now, stop, duration, rate, start_time, next_tick,
                   t_now, logged, stop_checks, gen_vars, classify_vars, sink_vars, sample_vars>>

RtDbEnd ==
    /\ prog = "runner_runtime" /\ pc = "in_db"
    /\ \E result \in DbResults, lag \in 0..MaxLag :
        /\ calls' = Returned(result)
        /\ now' = Later(now, lag)
        /\ pc' = after_sink(result, "next")
        /\ run_i' = IF result = "True" THEN run_i + 1 ELSE run_i
        /\ logged' = IF result = "False" THEN "Stopping due to DB write failure." ELSE logged
    /\ UNCHANGED <<prog, stop, duration, rate, start_time, next_tick,
                   t_now, stop_checks, gen_vars, classify_vars, sink_vars, sample_vars>>

RuntimeInit ==
    /\ prog = "runner_runtime" /\ pc = "start"
    /\ duration \in 0..MaxDuration
    /\ rate \in 0..MaxRate
    /\ now \in 0..MaxStart
    /\ num_records = -1
    /\ GenIdle
    /\ run_i = 0 /\ calls = <<>> /\ stop = FALSE
    /\ start_time = 0 /\ next_tick = 0 /\ t_now = 0 /\ logged = "none"
    /\ stop_checks = 0
    /\ hour = 0 /\ ClassifyIdle /\ SinkIdle /\ SampleIdle

\* The steps of main's own thread
RtMain ==
    \/ RtStart \/ RtNext \/ RtCheckStop \/ RtCheckDuration \/ RtPace
    \/ RtCsvBegin \/ RtCsvEnd \/ RtDbBegin \/ RtDbEnd

RuntimeNext == RtMain \/ HandleExit

\* main's thread keeps running and every sink call returns; a signal need
\* never arrive.
RuntimeFairSpec == RuntimeInit /\ [][RuntimeNext]_vars /\ WF_vars(RtMain)

\* Either program is run.
Init == RunnerInit \/ RuntimeInit

Next == RunnerNext \/ RuntimeNext

Spec == Init /\ [][Next]_vars

\* ---- SinkSpec: the two sinks called with arbitrary record dicts under
\* every behaviour of the file system and of the store
SinkInit ==
    /\ CSV_WRITE \in BOOLEAN /\ DB_WRITE \in BOOLEAN
    /\ dir_exists \in BOOLEAN /\ file_exists = FALSE /\ file = <<>>
    /\ table_exists \in BOOLEAN /\ table = <<>>
    /\ utc = 0 /\ last = NoCall /\ n_calls = 0 /\ csv_ok = 0 /\ csv_fail = 0
    /\ hour = 0 /\ ClassifyIdle /\ SampleIdle
    /\ RunIdle

CallCsv ==
    /\ n_calls < MaxSinkCalls
    /\ \E rec \in SinkRecords, env \in CsvEnvs :
        LET r == write_record_to_csv(rec, env)
        IN  /\ dir_exists' = r.dir
            /\ file_exists' = r.exists
            /\ file' = r.lines
            /\ last' = [sink |-> "csv", rec |-> rec, env |-> env, result |-> r.result]
            /\ csv_ok' = IF r.result = "True" THEN csv_ok + 1 ELSE csv_ok
            /\ csv_fail' = IF r.result = "True" THEN csv_fail ELSE csv_fail + 1
    /\ utc' = utc + 1
    /\ n_calls' = n_calls + 1
    /\ UNCHANGED <<CSV_WRITE, DB_WRITE, table_exists, table, classify_vars,
                   gen_vars, run_vars, sample_vars>>

CallDb ==
    /\ n_calls < MaxSinkCalls
    /\ \E rec \in SinkRecords, env \in DbEnvs :
        LET r == write_record_to_db(rec, env)
        IN  /\ table_exists' = r.exists
            /\ table' = r.rows
            /\ last' = [sink |-> "db", rec |-> rec, env |-> env, result |-> r.result]
    /\ n_calls' = n_calls + 1
    /\ UNCHANGED <<CSV_WRITE, DB_WRITE, dir_exists, file_exists, file, utc,
                   csv_ok, csv_fail, classify_vars, gen_vars, run_vars, sample_vars>>

SinkNext == CallCsv \/ CallDb

SinkSpec == SinkInit /\ [][SinkNext]_vars

\* ---- SampleSpec: the vehicle_count and pepkspeed fields of a record, as
\* each generator computes them, for every hour and every configuration
SampleInit ==
    /\ hour \in Hours
    /\ VEHICLE_COUNT \in (0 - 1)..MaxVehicleCount
    /\ PEAKSPEED_MEAN \in MeanChoices
    /\ PEAKSPEED_STD \in StdChoices
    /\ out = NoField
    /\ ClassifyIdle /\ SinkIdle /\ RunIdle

\* generator_v2.generate_records: vehicle_count=adjusted_count
V2VehicleCount ==
    /\ \E base \in BaseVehicleCounts, m \in get_time_multipliers(hour) :
        out' = Field("generator_v2", "vehicle_count",
                     adjusted_count(base, m[2]), Num(0))
    /\ UNCHANGED <<VEHICLE_COUNT, PEAKSPEED_MEAN, PEAKSPEED_STD, classify_vars,
                   sink_vars, gen_vars, run_vars>>

\* generator_v2.generate_records: pepkspeed=round(sample_peakspeed(current_hour), 2)
V2Pepkspeed ==
    /\ \E speed \in sample_peakspeed_v2(hour) :
        out' = Field("generator_v2", "pepkspeed", 0, round2(speed))
    /\ UNCHANGED <<VEHICLE_COUNT, PEAKSPEED_MEAN, PEAKSPEED_STD, classify_vars,
                   sink_vars, gen_vars, run_vars>>

\* generator.generate_records: vehicle_count=VEHICLE_COUNT
V1VehicleCount ==
    /\ out' = Field("generator", "vehicle_count", VEHICLE_COUNT, Num(0))
    /\ UNCHANGED <<VEHICLE_COUNT, PEAKSPEED_MEAN, PEAKSPEED_STD, classify_vars,
                   sink_vars, gen_vars, run_vars>>

\* generator.generate_records: pepkspeed=round(sample_peakspeed(), 2)
V1Pepkspeed ==
    /\ \E speed \in sample_peakspeed_v1 :
        out' = Field("generator", "pepkspeed", 0, round2(speed))
    /\ UNCHANGED <<VEHICLE_COUNT, PEAKSPEED_MEAN, PEAKSPEED_STD, classify_vars,
                   sink_vars, gen_vars, run_vars>>

SampleNext == V2VehicleCount \/ V2Pepkspeed \/ V1VehicleCount \/ V1Pepkspeed

SampleSpec == SampleInit /\ [][SampleNext]_vars

\* ---- ClassifySpec: the two functions applied to every hour of the day
ClassifyInit ==
    /\ hour \in Hours
    /\ ClassifyIdle
    /\ SinkIdle
    /\ RunIdle
    /\ SampleIdle

CallGetTimePeriod ==
    /\ period' = get_time_period(hour)
    /\ UNCHANGED <<hour, mult, sink_vars, gen_vars, run_vars, sample_vars>>

CallGetTimeMultipliers ==
    /\ mult' \in get_time_multipliers(hour)
    /\ UNCHANGED <<hour, period, sink_vars, gen_vars, run_vars, sample_vars>>

ClassifyNext == CallGetTimePeriod \/ CallGetTimeMultipliers


ClassifySpec == ClassifyInit /\ [][ClassifyNext]_vars

RushSet == {7, 8, 11, 12, 16, 17}
BusinessSet == {9, 10, 13, 14, 15}
EveningSet == {18, 19, 20, 21}
OvernightSet == Hours \ (RushSet \cup BusinessSet \cup EveningSet)

InBand(m, slo, shi, vlo, vhi) ==
    slo <= m[1] /\ m[1] <= shi /\ vlo <= m[2] /\ m[2] <= vhi

DbCallFailed ==
    /\ last.sink = "db" /\ DB_WRITE
    /\ last.env.connect = "error" \/ last.env.fail # "none"

\* C2: with the store sink enabled, write_record_to_db returns False on any
\* connection error and on any write error (table creation, insert, commit),
\* never True.
C2_FailureReturnsFalse == DbCallFailed => last.result # "True"

\* C3: neither sink raises past its call boundary: every call returns a
\* boolean, whatever the record and the failure.
C3_SinksNeverRaise == last.sink # "none" => last.result \in {"True", "False"}

\* A step in which a burst yields its next record
NextInBurst == prog = "runner" /\ gen_pc = "yielded" /\ gen_pc' = "yielded" /\ j' = j + 1

\* C1: within one burst of generator_v2.generate_records the instants of
\* successive records are non-decreasing: the record of index j + 1 is never
\* stamped earlier than the record of index j, whatever jitter is drawn.
C1_BurstNonDecreasing == [][NextInBurst => current_time' >= current_time]_vars

\* Every sink call so far has returned True.
AllTrue == \A k \in 1..Len(calls) : calls[k].result = "True"

\* C4: in both run loops the sink calls are a prefix of CSV(r1), store(r1),
\* CSV(r2), store(r2), ...: the k-th call is a CSV call for odd k and a store
\* call for even k, on record (k + 1) / 2; every call but the last returned
\* True; and a call that returned False is the last one, the loop being over.
C4_SinkCallPrefix ==
    /\ \A k \in 1..Len(calls) :
        /\ calls[k].sink = (IF k % 2 = 1 THEN "csv" ELSE "db")
        /\ calls[k].rec = (k + 1) \div 2
        /\ k < Len(calls) => calls[k].result = "True"
    /\ (calls # <<>> /\ calls[Len(calls)].result = "False") => pc = "done"

\* runner.main: the store sink has failed on the 3rd record, after 3 CSV
\* calls and 3 store calls.
C4_Witness ==
    /\ prog = "runner" /\ pc = "done" /\ Len(calls) = 6
    /\ calls[6].sink = "db" /\ calls[6].result = "False" /\ calls[6].rec = 3

CallsOf(sink) == Cardinality({ k \in 1..Len(calls) : calls[k].sink = sink })

\* C5: for a limit n >= 0 generate_records(n) never yields more than n
\* records and has yielded exactly n when it ends; its counter i counts the
\* records it has resumed from; and when runner.main ends with no sink
\* failure, each sink has been called exactly n times.
C5_ExactlyNRecords ==
    (prog = "runner" /\ num_records >= 0) =>
        /\ emitted <= num_records
        /\ gen_i = (IF gen_pc = "yielded" THEN emitted - 1 ELSE emitted)
        /\ gen_pc = "done" => emitted = num_records
        /\ (pc = "done" /\ AllTrue) =>
              /\ gen_pc = "done"
              /\ CallsOf("csv") = num_records /\ CallsOf("db") = num_records

\* A run of 3 records has ended with its second burst cut short by the limit.
C5_Witness ==
    /\ prog = "runner" /\ num_records = 3 /\ pc = "done" /\ gen_pc = "done"
    /\ AllTrue /\ Len(calls) = 6
    /\ j + 1 < batch_size

Terminated == pc \in {"done", "raised"}

AfterStop == { k \in 1..Len(calls) : calls[k].stop_set }

C6_Inv ==
    /\ stop_checks = (IF pc = "check_stop" THEN emitted - 1 ELSE emitted)
    /\ \A k \in 1..Len(calls) : calls[k].rec <= stop_checks
    /\ Cardinality({ calls[k].rec : k \in AfterStop }) <= 1
    /\ Cardinality(AfterStop) <= 2

C6_HandlerOnlySetsFlag ==
    stop' # stop =>
        /\ stop' = TRUE
        /\ UNCHANGED <<prog, pc, run_i, calls, now, duration, rate, start_time,
                       next_tick, t_now, logged, stop_checks, gen_vars>>

C6_WriteCompletes ==
    pc \in {"in_csv", "in_db"} =>
        \/ pc' = pc /\ calls' = calls
        \/ /\ Len(calls') = Len(calls)
           /\ calls'[Len(calls)].result # "pending"
           /\ pc' \notin {"in_csv", "in_db"}

\* C6: cancellation in runner_runtime.main is cooperative. The handler only
\* sets the flag; the flag is tested once per iteration, before the sink
\* calls of that iteration; a sink call in progress is left only by its
\* return; the sink calls begun after the flag was set are of one record at
\* most; and once the flag is set the run ends.
C6_CooperativeCancel ==
    /\ []C6_Inv
    /\ [][C6_HandlerOnlySetsFlag]_vars
    /\ [][C6_WriteCompletes]_vars
    /\ stop ~> Terminated

\* The signal arrived after the CSV write of the 2nd record had begun and
\* before its store write began: both writes completed, and the loop ended
\* at its next test of the flag.
C6_Witness ==
    /\ pc = "done" /\ logged = "Stop signal received, exiting loop."
    /\ Len(calls) = 4
    /\ ~calls[3].stop_set /\ calls[4].stop_set
    /\ calls[3].result = "True" /\ calls[4].result = "True"

InSinkPhase == pc \in {"pace", "csv", "in_csv", "db", "in_db"}

C7_Inv ==
    /\ (pc = "done" /\ ~stop /\ AllTrue) => now - start_time >= duration
    /\ InSinkPhase => t_now - start_time < duration

\* C7: in duration mode, with no sink failure and no interrupt, the run is
\* never over before the elapsed time has reached the duration; no sink call
\* is started in an iteration whose check found the duration reached; and
\* once the duration is reached the run ends; for rate = 0 as for rate > 0.
C7_DurationMode ==
    /\ []C7_Inv
    /\ (pc # "start" /\ now - start_time >= duration) ~> Terminated

\* An unpaced run (rate = 0) of 4 ticks has written records and has ended on
\* the duration check, with no failure and no interrupt.
C7_Witness ==
    /\ rate = 0 /\ duration = 4 /\ pc = "done" /\ ~stop /\ AllTrue
    /\ logged = "Reached duration limit." /\ run_i >= 2
    /\ now - start_time >= duration

C8_FileShape ==
    (CSV_WRITE /\ csv_fail = 0 /\ csv_ok >= 1) =>
        /\ dir_exists /\ file_exists
        /\ Len(file) = csv_ok + 1
        /\ file[1].kind = "header" /\ file[1].cells = fields
        /\ \A k \in 2..Len(file) : file[k].kind = "row"

C8_AppendOnly ==
    (CSV_WRITE /\ csv_ok' = csv_ok + 1) =>
        /\ Len(file') >= Len(file) + 1
        /\ SubSeq(file', 1, Len(file)) = file
        /\ file'[Len(file')].kind = "row"
        /\ file'[Len(file')].cells = RowLine(last'.rec, utc).cells
        /\ file_exists => Len(file') = Len(file) + 1

\* C8: with the CSV sink enabled, after k >= 1 calls that all succeeded,
\* starting from a non-existent path, the parent directory exists and the
\* file is one header line followed by k data rows; a write to an existing
\* file leaves every earlier line in place and appends one row for its
\* record, so the rows are in call order.
C8_HeaderOnceRowsInOrder == []C8_FileShape /\ [][C8_AppendOnly]_vars

\* Two writes have succeeded and none has failed: the second found the file.
C8_Witness == CSV_WRITE /\ csv_fail = 0 /\ csv_ok = 2 /\ Len(file) = 3

\* C11: every record emitted by a generator has vehicle_count >= 1, for
\* every base count, every vehicle multiplier and every configured
\* VEHICLE_COUNT.
C11_VehicleCountPositive == out.field = "vehicle_count" => out.count >= 1

\* C12: every record emitted by a generator has 0.0 <= pepkspeed <= 120.0,
\* a number of whole hundredths, whatever the normal draw, the configured
\* mean and standard deviation (NaN included) and the speed multiplier.
C12_SpeedInRange ==
    out.field = "pepkspeed" =>
        /\ ~out.speed.nan
        /\ 0 <= out.speed.v /\ out.speed.v <= 120000
        /\ out.speed.v % 10 = 0

\* A draw above 120 mph (mean 150, deviation 60), slowed by a rush hour, has
\* been clipped to 120.0 by generator_v2.
C12_Witness ==
    /\ out.field = "pepkspeed" /\ out.gen = "generator_v2" /\ out.speed = Num(120000)
    /\ hour = 8 /\ PEAKSPEED_MEAN = Num(150000) /\ PEAKSPEED_STD = Num(60000)

====
